---------------------------- MODULE Spec2Model ----------------------------
(***************************************************************************)
(* Model of lib/tasks/registrar/course_listings.py: the CourseReader that  *)
(* pairs the department names of the registrar's drop-down menu with those *)
(* of its prefix table, and the Department objects that turn the rows of a *)
(* department page into a course list.  Both cache what they load          *)
(* (auto_load / force_load).                                               *)
(*                                                                         *)
(* Python values are modelled as follows.  An optional value (None or x)   *)
(* is the sequence <<>> or <<x>>.  The text of a table cell is a sequence  *)
(* of one-character strings, so that lower(), "in" and int() are computed. *)
(* Department objects live in heap and are named by their index in it; a   *)
(* caller may keep a Department of an earlier load of the reader.          *)
(***************************************************************************)
EXTENDS Integers, Sequences, FiniteSets, TLC

VARIABLES
    reader,             \* the CourseReader: base_url, __departments, __loaded
    heap,               \* every Department object built so far
    scoring_algorithm,  \* department_matching.scoring_algorithm, as a table
    log,                \* what logger.debug last printed: the matched names
    last,               \* the call made last: operation, receiver, input, outcome
    ret,                \* the value that call returned (or yielded)
    ever,               \* per object: has a population of it ever completed
    pool                \* the scoring workers of a similar_zip call in progress

vars == <<reader, heap, scoring_algorithm, log, last, ret, ever, pool>>

----------------------------------------------------------------------------
(* Bounds of the model.                                                    *)

MaxRows == 3
MaxMenu == 3
MaxHeap == 3
MaxCell == 4
MaxPairs == 3
MinYear == 1998
MaxYear == 2012

----------------------------------------------------------------------------
(* Python values.                                                          *)

None == <<>>
Some(x) == <<x>>
IsNone(o) == o = <<>>
The(o) == o[1]

Range(s) == {s[i] : i \in 1..Len(s)}

RECURSIVE SeqsUpTo(_, _)
SeqsUpTo(S, n) ==
    IF n = 0 THEN {<<>>}
    ELSE LET shorter == SeqsUpTo(S, n - 1)
         IN  shorter \cup {Append(s, x) : s \in {t \in shorter : Len(t) = n - 1}, x \in S}

UpperCase == <<"A", "B", "C", "D", "E", "F", "G", "H", "I", "J", "K", "L", "M",
               "N", "O", "P", "Q", "R", "S", "T", "U", "V", "W", "X", "Y", "Z">>
LowerCase == <<"a", "b", "c", "d", "e", "f", "g", "h", "i", "j", "k", "l", "m",
               "n", "o", "p", "q", "r", "s", "t", "u", "v", "w", "x", "y", "z">>

(* str.lower() and str.upper(), a character at a time.                     *)
ToLower == [c \in Range(UpperCase) |-> LowerCase[CHOOSE k \in 1..26 : UpperCase[k] = c]]
ToUpper == [c \in Range(LowerCase) |-> UpperCase[CHOOSE k \in 1..26 : LowerCase[k] = c]]

LowerChar(c) == IF c \in DOMAIN ToLower THEN ToLower[c] ELSE c
UpperChar(c) == IF c \in DOMAIN ToUpper THEN ToUpper[c] ELSE c

Lower(s) == [i \in 1..Len(s) |-> LowerChar(s[i])]
Upper(s) == [i \in 1..Len(s) |-> UpperChar(s[i])]

(* Python's  sub in s  on strings.                                         *)
Contains(sub, s) ==
    \E i \in 1..(Len(s) - Len(sub) + 1) : SubSeq(s, i, i + Len(sub) - 1) = sub

Digits == <<"0", "1", "2", "3", "4", "5", "6", "7", "8", "9">>
IsDigit(c) == \E k \in 1..10 : Digits[k] = c
DigitValue(c) == (CHOOSE k \in 1..10 : Digits[k] = c) - 1

RECURSIVE DecimalValue(_)
DecimalValue(s) ==
    IF s = <<>> THEN 0
    ELSE 10 * DecimalValue(SubSeq(s, 1, Len(s) - 1)) + DigitValue(s[Len(s)])

(* int(text) on a stripped text: an optional sign and at least one digit;  *)
(* None stands for the ValueError that int raises on anything else.        *)
ParseInt(s) ==
    LET signed == s # <<>> /\ s[1] \in {"-", "+"}
        digits == IF signed THEN Tail(s) ELSE s
    IN  IF digits = <<>> \/ \E i \in 1..Len(digits) : ~IsDigit(digits[i])
        THEN None
        ELSE Some(IF signed /\ s[1] = "-" THEN 0 - DecimalValue(digits)
                  ELSE DecimalValue(digits))


----------------------------------------------------------------------------
(* The rows of a department page.  A row is what dict(zip(headers, cells)) *)
(* gives for one <tr>: each cell None (empty) or its stripped text.  The   *)
(* title, section, gen-ed, writing, period, building and room cells are    *)
(* handed to the Course and CourseMeeting unread and are left out.         *)

MAC2313 == <<"M", "A", "C", "2", "3", "1", "3">>
PHY2048 == <<"P", "H", "Y", "2", "0", "4", "8">>
BadCode == <<"?">>

Cred3   == <<"3">>
CredVAR == <<"V", "A", "R">>
CredBad == <<"x">>
CredVar == <<"V", "a", "r">>

DaysMWF == <<"M", "W", "F">>
DaysT   == <<"T">>
DaysTBA == <<"T", "B", "A">>

DaysTba == <<"T", "b", "a">>

Smith == <<"S">>

(* courses.CourseCode(text): three letters, the prefix, then the number.   *)
(* None stands for the error raised on a text of any other shape.          *)
CourseCode(text) ==
    IF /\ Len(text) > 3
       /\ \A i \in 1..3 : text[i] \in Range(UpperCase)
       /\ \A i \in 4..Len(text) : IsDigit(text[i])
    THEN Some([prefix |-> SubSeq(text, 1, 3), number |-> SubSeq(text, 4, Len(text))])
    ELSE None

(* courses.CourseList(base_course_list): the courses, in the order given.  *)
CourseList(base_course_list) == base_course_list

(* stripped_or_none is applied by the page: a cell is None or a text.      *)
PrimaryRows ==
    [comment : {FALSE}, course : {Some(MAC2313), Some(PHY2048)},
     cred : {Some(Cred3), Some(CredBad)},
     days : {None, Some(DaysMWF), Some(DaysT), Some(DaysTBA)},
     instructors : {Some(Smith)}]

ContinuationRows ==
    [comment : {FALSE}, course : {None}, cred : {None},
     days : {None, Some(DaysMWF), Some(DaysT), Some(DaysTBA)},
     instructors : {None}]

CommentRow ==
    [comment |-> TRUE, course |-> None, cred |-> None, days |-> None,
     instructors |-> None]

Rows == PrimaryRows \cup ContinuationRows \cup {CommentRow}

(* course_rows = [r for r in course_rows if not r.cssselect("th.soc_comment")] *)
RECURSIVE DropComments(_)
DropComments(rows) ==
    IF rows = <<>> THEN <<>>
    ELSE IF Head(rows).comment THEN DropComments(Tail(rows))
         ELSE <<Head(rows)>> \o DropComments(Tail(rows))

(* build_meeting(d): None for an empty or "tba" day cell.                  *)
build_meeting(d) ==
    IF IsNone(d.days) \/ Contains(<<"t", "b", "a">>, Lower(The(d.days)))
    THEN None
    ELSE Some([days |-> The(d.days)])

(* The credits gone wrong: "var" is looked for in the text as it is, not   *)
(* in its lower-case form.                                                 *)
Credits_CaseSensitive(cred) ==
    IF IsNone(cred) THEN [ok |-> FALSE, error |-> "AttributeError", value |-> 0]
    ELSE IF Contains(<<"v", "a", "r">>, The(cred))
         THEN [ok |-> TRUE, error |-> "", value |-> -1]
         ELSE LET n == ParseInt(The(cred))
              IN  IF IsNone(n) THEN [ok |-> FALSE, error |-> "ValueError", value |-> 0]
                  ELSE [ok |-> TRUE, error |-> "", value |-> The(n)]

(* credits = int(d["cred"]) if "var" not in d["cred"].lower() else -1      *)
(* The result is [ok, error, value]; an empty cell is None, and None has   *)
(* no lower().                                                             *)
Credits(cred) ==
    IF IsNone(cred) THEN [ok |-> FALSE, error |-> "AttributeError", value |-> 0]
    ELSE IF Contains(<<"v", "a", "r">>, Lower(The(cred)))
         THEN [ok |-> TRUE, error |-> "", value |-> -1]
         ELSE LET n == ParseInt(The(cred))
              IN  IF IsNone(n) THEN [ok |-> FALSE, error |-> "ValueError", value |-> 0]
                  ELSE [ok |-> TRUE, error |-> "", value |-> The(n)]

(* [i.strip() for i in text.split("\n")], on a text without blanks.        *)
RECURSIVE SplitLines(_, _)
SplitLines(text, current) ==
    IF text = <<>> THEN <<current>>
    ELSE IF Head(text) = "\n" THEN <<current>> \o SplitLines(Tail(text), <<>>)
         ELSE SplitLines(Tail(text), Append(current, Head(text)))

(* The body for a row with a course cell gone wrong: the new course is put *)
(* first in base_course_list.                                              *)
PrimaryRow_Prepends(d, base_course_list) ==
    LET credits == Credits(d.cred)
        meeting == build_meeting(d)
        code    == CourseCode(The(d.course))
    IN  IF ~credits.ok
        THEN [ok |-> FALSE, error |-> credits.error, list |-> base_course_list]
        ELSE IF IsNone(d.instructors)
        THEN [ok |-> FALSE, error |-> "AttributeError", list |-> base_course_list]
        ELSE IF IsNone(code)
        THEN [ok |-> FALSE, error |-> "CourseCodeError", list |-> base_course_list]
        ELSE [ok |-> TRUE, error |-> "",
              list |-> <<[course_code |-> The(code),
                          credits |-> credits.value,
                          meetings |-> IF IsNone(meeting) THEN <<>> ELSE <<The(meeting)>>,
                          instructors |-> SplitLines(The(d.instructors), <<>>)]>>
                       \o base_course_list]

(* The body of  for d in course_dicts  for a row with a course cell.       *)
(* The credits are read first, then the meeting, then the arguments of     *)
(* courses.Course, the instructors among them.                             *)
PrimaryRow(d, base_course_list) ==
    LET credits == Credits(d.cred)
        meeting == build_meeting(d)
        code    == CourseCode(The(d.course))
    IN  IF ~credits.ok
        THEN [ok |-> FALSE, error |-> credits.error, list |-> base_course_list]
        ELSE IF IsNone(d.instructors)
        THEN [ok |-> FALSE, error |-> "AttributeError", list |-> base_course_list]
        ELSE IF IsNone(code)
        THEN [ok |-> FALSE, error |-> "CourseCodeError", list |-> base_course_list]
        ELSE [ok |-> TRUE, error |-> "",
              list |-> Append(base_course_list,
                         [course_code |-> The(code),
                          credits |-> credits.value,
                          meetings |-> IF IsNone(meeting) THEN <<>> ELSE <<The(meeting)>>,
                          instructors |-> SplitLines(The(d.instructors), <<>>)])]

(* The else branch gone wrong: the meeting goes to base_course_list[0].    *)
ContinuationRow_ToFirst(d, base_course_list) ==
    LET meeting == build_meeting(d)
        n == Len(base_course_list)
    IN  IF IsNone(meeting)
        THEN [ok |-> TRUE, error |-> "", list |-> base_course_list]
        ELSE IF n = 0
        THEN [ok |-> FALSE, error |-> "IndexError", list |-> base_course_list]
        ELSE [ok |-> TRUE, error |-> "",
              list |-> [base_course_list EXCEPT ![1].meetings = Append(@, The(meeting))]]

(* The else branch gone wrong: base_course_list[-1] is looked up before    *)
(* the meeting is built, so a row with no course before it raises even     *)
(* when it has no meeting.                                                 *)
ContinuationRow_Strict(d, base_course_list) ==
    LET meeting == build_meeting(d)
        n == Len(base_course_list)
    IN  IF n = 0
        THEN [ok |-> FALSE, error |-> "IndexError", list |-> base_course_list]
        ELSE IF IsNone(meeting)
        THEN [ok |-> TRUE, error |-> "", list |-> base_course_list]
        ELSE [ok |-> TRUE, error |-> "",
              list |-> [base_course_list EXCEPT ![n].meetings = Append(@, The(meeting))]]

(* The else branch gone wrong: a meeting with no course before it is       *)
(* thrown away.                                                            *)
ContinuationRow_Lenient(d, base_course_list) ==
    LET meeting == build_meeting(d)
        n == Len(base_course_list)
    IN  IF IsNone(meeting) \/ n = 0
        THEN [ok |-> TRUE, error |-> "", list |-> base_course_list]
        ELSE [ok |-> TRUE, error |-> "",
              list |-> [base_course_list EXCEPT ![n].meetings = Append(@, The(meeting))]]

(* The else branch: a row without a course cell adds its meeting, if it    *)
(* has one, to base_course_list[-1].                                       *)
ContinuationRow(d, base_course_list) ==
    LET meeting == build_meeting(d)
        n == Len(base_course_list)
    IN  IF IsNone(meeting)
        THEN [ok |-> TRUE, error |-> "", list |-> base_course_list]
        ELSE IF n = 0
        THEN [ok |-> FALSE, error |-> "IndexError", list |-> base_course_list]
        ELSE [ok |-> TRUE, error |-> "",
              list |-> [base_course_list EXCEPT ![n].meetings = Append(@, The(meeting))]]

(* The loop gone wrong: a row with a course cell that raises is left out   *)
(* and the loop goes on with the next row.                                 *)
RECURSIVE RowLoop_Skipping(_, _)
RowLoop_Skipping(course_dicts, base_course_list) ==
    IF course_dicts = <<>>
    THEN [ok |-> TRUE, error |-> "", list |-> base_course_list]
    ELSE LET d == Head(course_dicts)
             step == IF ~IsNone(d.course) THEN PrimaryRow(d, base_course_list)
                     ELSE ContinuationRow(d, base_course_list)
         IN  IF step.ok THEN RowLoop_Skipping(Tail(course_dicts), step.list)
             ELSE IF ~IsNone(d.course)
             THEN RowLoop_Skipping(Tail(course_dicts), base_course_list)
             ELSE step

(* for d in course_dicts: ...   The first error ends the loop.             *)
RECURSIVE RowLoop(_, _)
RowLoop(course_dicts, base_course_list) ==
    IF course_dicts = <<>>
    THEN [ok |-> TRUE, error |-> "", list |-> base_course_list]
    ELSE LET d == Head(course_dicts)
             step == IF ~IsNone(d.course) THEN PrimaryRow(d, base_course_list)
                     ELSE ContinuationRow(d, base_course_list)
         IN  IF step.ok THEN RowLoop(Tail(course_dicts), step.list) ELSE step

(* The prefixes of the course list, each once, by first occurrence.        *)
RECURSIVE FindPrefixes(_, _)
FindPrefixes(course_list, prefixes) ==
    IF course_list = <<>> THEN prefixes
    ELSE LET p == Head(course_list).course_code.prefix
         IN  FindPrefixes(Tail(course_list),
                          IF p \in Range(prefixes) THEN prefixes ELSE Append(prefixes, p))

(* Department.__init__                                                     *)
Department(name, alternate_names, prefixes, base_url, relative_url) ==
    [name |-> name, alternate_names |-> alternate_names, prefixes |-> prefixes,
     base_url |-> base_url, relative_url |-> relative_url,
     course_list |-> None, loaded |-> FALSE]

(* Department.force_load gone wrong: it does nothing on a Department that  *)
(* is loaded already.                                                      *)
Department_force_load_IfNotLoaded(self, page) ==
    IF self.loaded THEN [ok |-> TRUE, error |-> "", self |-> self, loads |-> 0]
    ELSE IF IsNone(page) THEN [ok |-> FALSE, error |-> "LoadError", self |-> self, loads |-> 1]
    ELSE LET loop == RowLoop(DropComments(The(page)), <<>>)
         IN  IF ~loop.ok
             THEN [ok |-> FALSE, error |-> loop.error, self |-> self, loads |-> 1]
             ELSE [ok |-> TRUE, error |-> "", loads |-> 1,
                   self |-> [self EXCEPT
                       !.course_list = Some(CourseList(loop.list)),
                       !.prefixes = FindPrefixes(CourseList(loop.list), <<>>),
                       !.loaded = TRUE]]

(* Department.force_load gone wrong: __loaded is set once the page has     *)
(* been fetched, before its rows are read.                                 *)
Department_force_load_LoadedEarly(self, page) ==
    IF IsNone(page) THEN [ok |-> FALSE, error |-> "LoadError", self |-> self, loads |-> 1]
    ELSE LET loop == RowLoop(DropComments(The(page)), <<>>)
         IN  IF ~loop.ok
             THEN [ok |-> FALSE, error |-> loop.error, loads |-> 1,
                   self |-> [self EXCEPT !.loaded = TRUE]]
             ELSE [ok |-> TRUE, error |-> "", loads |-> 1,
                   self |-> [self EXCEPT
                       !.course_list = Some(CourseList(loop.list)),
                       !.prefixes = FindPrefixes(CourseList(loop.list), <<>>),
                       !.loaded = TRUE]]

(* Department.force_load gone wrong: the courses are put into              *)
(* __course_list as the rows are read, so a row that raises leaves the     *)
(* courses read before it.                                                 *)
Department_force_load_Incremental(self, page) ==
    IF IsNone(page) THEN [ok |-> FALSE, error |-> "LoadError", self |-> self, loads |-> 1]
    ELSE LET loop == RowLoop(DropComments(The(page)), <<>>)
         IN  IF ~loop.ok
             THEN [ok |-> FALSE, error |-> loop.error, loads |-> 1,
                   self |-> [self EXCEPT !.course_list = Some(CourseList(loop.list))]]
             ELSE [ok |-> TRUE, error |-> "", loads |-> 1,
                   self |-> [self EXCEPT
                       !.course_list = Some(CourseList(loop.list)),
                       !.prefixes = FindPrefixes(CourseList(loop.list), <<>>),
                       !.loaded = TRUE]]

(* Department.force_load gone wrong: the prefixes found are added to those *)
(* the Department was built with.                                          *)
Department_force_load_KeepsGuess(self, page) ==
    IF IsNone(page) THEN [ok |-> FALSE, error |-> "LoadError", self |-> self, loads |-> 1]
    ELSE LET loop == RowLoop(DropComments(The(page)), <<>>)
         IN  IF ~loop.ok
             THEN [ok |-> FALSE, error |-> loop.error, self |-> self, loads |-> 1]
             ELSE [ok |-> TRUE, error |-> "", loads |-> 1,
                   self |-> [self EXCEPT
                       !.course_list = Some(CourseList(loop.list)),
                       !.prefixes = FindPrefixes(CourseList(loop.list), self.prefixes),
                       !.loaded = TRUE]]

(* Department.force_load on the page found at the department's url: None   *)
(* when load_page raises or the page holds no course table, else its rows. *)
(* The result is [ok, error, self, loads]: self is the object when the     *)
(* call ends, loads the number of pages it asked the browser for.          *)
Department_force_load(self, page) ==
    IF IsNone(page) THEN [ok |-> FALSE, error |-> "LoadError", self |-> self, loads |-> 1]
    ELSE LET loop == RowLoop(DropComments(The(page)), <<>>)
         IN  IF ~loop.ok
             THEN [ok |-> FALSE, error |-> loop.error, self |-> self, loads |-> 1]
             ELSE [ok |-> TRUE, error |-> "", loads |-> 1,
                   self |-> [self EXCEPT
                       !.course_list = Some(CourseList(loop.list)),
                       !.prefixes = FindPrefixes(CourseList(loop.list), <<>>),
                       !.loaded = TRUE]]

(* Department.auto_load gone wrong: it loads whether loaded or not.        *)
Department_auto_load_Always(self, page) == Department_force_load(self, page)

(* Department.auto_load                                                    *)
Department_auto_load(self, page) ==
    IF ~self.loaded THEN Department_force_load(self, page)
    ELSE [ok |-> TRUE, error |-> "", self |-> self, loads |-> 0]

----------------------------------------------------------------------------
(* The department names of the registrar's main page.                      *)

MATH == <<"M", "A", "T", "H">>
Math == <<"M", "a", "t", "h">>
CS   == <<"C", "S">>
Comp == <<"C", "o", "m", "p">>
Chem == <<"C", "h", "e", "m">>

MAC == <<"M", "A", "C">>
MAP == <<"M", "A", "P">>
COP == <<"C", "O", "P">>
CHM == <<"C", "H", "M">>
PHY == <<"P", "H", "Y">>

MenuLabels  == {MATH, CS, Chem}
TableLabels == {Math, MATH, Comp, Chem}

(* department_matching.replace_abbreviations, on a lower-case name.        *)
replace_abbreviations(name) ==
    IF name = <<"c", "s">> THEN <<"c", "o", "m", "p">> ELSE name

(* key = lambda v: department_matching.replace_abbreviations(v.lower())    *)
Normalize(v) == replace_abbreviations(Lower(v))

NormForms == {Normalize(v) : v \in MenuLabels \cup TableLabels}

Scores == {0, 1}

(* The scoring functions considered: higher is more similar, and a name    *)
(* is as similar to itself as any name is.                                 *)
ScoreTables ==
    {f \in [NormForms \X NormForms -> Scores] : \A a \in NormForms, x \in Scores : f[<<a, a>>] >= x}

(* One of them: names are similar only to themselves.                      *)
ExactScore == [p \in NormForms \X NormForms |-> IF p[1] = p[2] THEN 1 ELSE 0]

(* The order in which similar_zip goes through the names of its second     *)
(* argument.                                                               *)
LabelOrder == <<Chem, Comp, MATH, Math>>
Rank(t) == CHOOSE k \in 1..Len(LabelOrder) : LabelOrder[k] = t

SetToSeq(S) ==
    LET present == {k \in 1..Len(LabelOrder) : LabelOrder[k] \in S}
        nth[j \in 0..Cardinality(present)] ==
            IF j = 0 THEN 0
            ELSE CHOOSE k \in present : k > nth[j - 1] /\ \A m \in present : m > nth[j - 1] => k <= m
    IN  [j \in 1..Cardinality(present) |-> LabelOrder[nth[j]]]

(* similar_zip, step 1 (direct_first): a menu name whose normalized form   *)
(* is that of a table name nobody has claimed takes that table name.       *)
(* pairing[i] is None or the table name given to the i-th menu name.       *)
RECURSIVE DirectMatches(_, _, _, _)
DirectMatches(menu_names, table_names, i, pairing) ==
    IF i > Len(menu_names) THEN pairing
    ELSE LET claimed == {The(pairing[k]) : k \in {j \in 1..Len(menu_names) : ~IsNone(pairing[j])}}
             same == {t \in table_names \ claimed : Normalize(t) = Normalize(menu_names[i])}
         IN  IF same = {} THEN DirectMatches(menu_names, table_names, i + 1, pairing)
             ELSE DirectMatches(menu_names, table_names, i + 1,
                     [pairing EXCEPT ![i] = Some(CHOOSE t \in same : \A u \in same : Rank(t) <= Rank(u))])

(* The pairs left to score after step 1, in the order of a sequential run. *)
Candidates(menu_names, table_names, pairing) ==
    LET claimed == {The(pairing[k]) : k \in {j \in 1..Len(menu_names) : ~IsNone(pairing[j])}}
        free == SetToSeq(table_names \ claimed)
        open == {i \in 1..Len(menu_names) : IsNone(pairing[i])}
        RECURSIVE From(_)
        From(i) ==
            IF i > Len(menu_names) THEN <<>>
            ELSE (IF i \in open THEN [k \in 1..Len(free) |-> [i |-> i, t |-> free[k]]] ELSE <<>>)
                 \o From(i + 1)
    IN  From(1)

(* What one worker computes for one pair.                                  *)
ScoreOf(score, menu_names, c) ==
    [i |-> c.i, t |-> c.t, score |-> score[<<Normalize(menu_names[c.i]), Normalize(c.t)>>]]

(* The order of step 2: the higher score first, then the earlier menu      *)
(* name, then the earlier table name.                                      *)
Better(a, b) ==
    \/ a.score > b.score
    \/ a.score = b.score /\ a.i < b.i
    \/ a.score = b.score /\ a.i = b.i /\ Rank(a.t) < Rank(b.t)

(* Step 2 gone wrong: a table name that is taken already may be given      *)
(* again.                                                                  *)
RECURSIVE Assign_Reusing(_, _)
Assign_Reusing(results, pairing) ==
    LET live == {k \in 1..Len(results) : IsNone(pairing[results[k].i])}
    IN  IF live = {} THEN pairing
        ELSE LET b == CHOOSE k \in live : \A j \in live \ {k} : Better(results[k], results[j])
             IN  Assign_Reusing(results, [pairing EXCEPT ![results[b].i] = Some(results[b].t)])

(* Step 2 gone wrong: of two pairs of the same score the one delivered     *)
(* first is taken.                                                         *)
RECURSIVE Assign_ByArrival(_, _)
Assign_ByArrival(results, pairing) ==
    LET claimed == {The(pairing[k]) : k \in {j \in DOMAIN pairing : ~IsNone(pairing[j])}}
        live == {k \in 1..Len(results) :
                    IsNone(pairing[results[k].i]) /\ results[k].t \notin claimed}
    IN  IF live = {} THEN pairing
        ELSE LET b == CHOOSE k \in live : \A j \in live \ {k} :
                          \/ results[k].score > results[j].score
                          \/ results[k].score = results[j].score /\ k < j
             IN  Assign_ByArrival(results,
                                  [pairing EXCEPT ![results[b].i] = Some(results[b].t)])

(* similar_zip, step 2: the best scored pair whose names are both free is  *)
(* paired, until no menu name is left.  results holds the scored pairs in  *)
(* the order in which the workers delivered them.                          *)
RECURSIVE Assign(_, _)
Assign(results, pairing) ==
    LET claimed == {The(pairing[k]) : k \in {j \in DOMAIN pairing : ~IsNone(pairing[j])}}
        live == {k \in 1..Len(results) :
                    IsNone(pairing[results[k].i]) /\ results[k].t \notin claimed}
    IN  IF live = {} THEN pairing
        ELSE LET b == CHOOSE k \in live : \A j \in live \ {k} : Better(results[k], results[j])
             IN  Assign(results, [pairing EXCEPT ![results[b].i] = Some(results[b].t)])

(* The scoring of step 2 by several processes.  The pairs to score are     *)
(* dealt out in turn to as many workers as there are pairs, max_processes  *)
(* at most; each worker hands back its scored pairs in one piece, and the  *)
(* pieces arrive in any order.                                             *)
Workers(cands, max_processes) ==
    IF Len(cands) < max_processes THEN Len(cands) ELSE max_processes

Batch(cands, w, workers) ==
    LET mine == {k \in 1..Len(cands) : (k - 1) % workers = w - 1}
    IN  [j \in 1..Cardinality(mine) |-> cands[w + (j - 1) * workers]]

RECURSIVE Gather(_, _, _, _, _)
Gather(score, menu_names, cands, delivered, workers) ==
    IF delivered = <<>> THEN <<>>
    ELSE LET batch == Batch(cands, Head(delivered), workers)
         IN  [k \in 1..Len(batch) |-> ScoreOf(score, menu_names, batch[k])]
             \o Gather(score, menu_names, cands, Tail(delivered), workers)

(* similar_zip with its step 2 scored by the workers, whose pieces arrived *)
(* in the order delivered.                                                 *)
similar_zip_parallel(menu_names, table_names, score, direct_first, max_processes, delivered) ==
    IF Len(menu_names) > Cardinality(table_names)
    THEN [ok |-> FALSE, error |-> "UnderdeterminedMatchError", pairs |-> <<>>,
          scored |-> {}]
    ELSE LET nothing == [i \in 1..Len(menu_names) |-> None]
             direct == IF direct_first
                       THEN DirectMatches(menu_names, table_names, 1, nothing)
                       ELSE nothing
             cands == Candidates(menu_names, table_names, direct)
             results == Gather(score, menu_names, cands, delivered,
                               Workers(cands, max_processes))
             pairing == Assign(results, direct)
         IN  [ok |-> TRUE, error |-> "",
              pairs |-> [i \in 1..Len(menu_names) |-> <<menu_names[i], The(pairing[i])>>],
              scored |-> {<<results[k].i, results[k].t>> : k \in 1..Len(results)}]

(* The number of workers a call of similar_zip on these names starts.      *)
WorkersFor(menu_names, table_names, direct_first, max_processes) ==
    LET nothing == [i \in 1..Len(menu_names) |-> None]
        direct == IF direct_first
                  THEN DirectMatches(menu_names, table_names, 1, nothing)
                  ELSE nothing
    IN  Workers(Candidates(menu_names, table_names, direct), max_processes)

(* fuzzy_match.similar_zip(menu_names, table_names, scoring_algorithm,     *)
(* key, single_match=True, high_is_similar=True, direct_first), run by     *)
(* one process.  The result is [ok, error, pairs, scored]: scored is the   *)
(* set of (menu position, table name) pairs the scoring function was       *)
(* applied to.                                                             *)
similar_zip(menu_names, table_names, score, direct_first) ==
    IF Len(menu_names) > Cardinality(table_names)
    THEN [ok |-> FALSE, error |-> "UnderdeterminedMatchError", pairs |-> <<>>,
          scored |-> {}]
    ELSE LET nothing == [i \in 1..Len(menu_names) |-> None]
             direct == IF direct_first
                       THEN DirectMatches(menu_names, table_names, 1, nothing)
                       ELSE nothing
             cands == Candidates(menu_names, table_names, direct)
             results == [k \in 1..Len(cands) |-> ScoreOf(score, menu_names, cands[k])]
             pairing == Assign(results, direct)
         IN  [ok |-> TRUE, error |-> "",
              pairs |-> [i \in 1..Len(menu_names) |-> <<menu_names[i], The(pairing[i])>>],
              scored |-> {<<cands[k].i, cands[k].t>> : k \in 1..Len(cands)}]

----------------------------------------------------------------------------
(* The CourseReader.                                                       *)

SPRING == "SPRING"
SUMMER == "SUMMER"
FALL   == "FALL"

(* CourseReader.__init__ gone wrong: the years of the web listings are    *)
(* not checked.                                                            *)
CourseReader_NoWebCheck(year, semester, full) ==
    IF year < 2001
    THEN [ok |-> FALSE, error |-> "KeyError", self |-> None]
    ELSE IF semester \notin {SPRING, SUMMER, FALL}
    THEN [ok |-> FALSE, error |-> "UnboundLocalError", self |-> None]
    ELSE [ok |-> TRUE, error |-> "",
          self |-> Some([base_url |-> [year |-> year,
                                       month |-> CASE semester = SPRING -> "01"
                                                   [] semester = SUMMER -> "06"
                                                   [] semester = FALL -> "08",
                                       listing |-> IF full THEN "all" ELSE "web"],
                         departments |-> None,
                         loaded |-> FALSE])]

(* CourseReader.__init__: [ok, error, self].                               *)
CourseReader(year, semester, full) ==
    IF year < 2001 \/ (~full /\ year < 2005)
    THEN [ok |-> FALSE, error |-> "KeyError", self |-> None]
    ELSE IF semester \notin {SPRING, SUMMER, FALL}
    THEN [ok |-> FALSE, error |-> "UnboundLocalError", self |-> None]
    ELSE [ok |-> TRUE, error |-> "",
          self |-> Some([base_url |-> [year |-> year,
                                       month |-> CASE semester = SPRING -> "01"
                                                   [] semester = SUMMER -> "06"
                                                   [] semester = FALL -> "08",
                                       listing |-> IF full THEN "all" ELSE "web"],
                         departments |-> None,
                         loaded |-> FALSE])]

(* __parse_department_menu: a (name, page) pair for every option but the   *)
(* first.                                                                  *)
parse_department_menu(options) ==
    IF options = <<>> THEN <<>> ELSE Tail(options)

(* __parse_course_prefix_table: a (prefix, name) pair for every row but    *)
(* the first, the header.                                                  *)
parse_course_prefix_table(rows) ==
    IF rows = <<>> THEN <<>> ELSE Tail(rows)

(* zip(list_a, list_b) stops with the shorter list.                        *)
Min(a, b) == IF a < b THEN a ELSE b

(* The loop gone wrong: b is put at the front of b_list.                   *)
RECURSIVE TupleDictLoop_Prepending(_, _, _)
TupleDictLoop_Prepending(list_a, list_b, n) ==
    IF n = 0 THEN <<>>
    ELSE LET tuple_dict == TupleDictLoop_Prepending(list_a, list_b, n - 1)
             a == list_a[n]
             b_list == IF a \in DOMAIN tuple_dict THEN tuple_dict[a] ELSE <<>>
         IN  [key \in DOMAIN tuple_dict \cup {a} |->
                 IF key = a THEN <<list_b[n]>> \o b_list ELSE tuple_dict[key]]

(* The loop of __parallel_lists_to_tuple_dict: tuple_dict after the first  *)
(* n pairs.  tuple_dict.get(a, []) is the list so far, or a new one.       *)
RECURSIVE TupleDictLoop(_, _, _)
TupleDictLoop(list_a, list_b, n) ==
    IF n = 0 THEN <<>>
    ELSE LET tuple_dict == TupleDictLoop(list_a, list_b, n - 1)
             a == list_a[n]
             b_list == IF a \in DOMAIN tuple_dict THEN tuple_dict[a] ELSE <<>>
         IN  [key \in DOMAIN tuple_dict \cup {a} |->
                 IF key = a THEN Append(b_list, list_b[n]) ELSE tuple_dict[key]]

(* __parallel_lists_to_tuple_dict                                          *)
parallel_lists_to_tuple_dict(list_a, list_b) ==
    TupleDictLoop(list_a, list_b, Min(Len(list_a), Len(list_b)))

(* dict(department_menu): a later pair of the same name replaces an        *)
(* earlier one.                                                            *)
url_lookup(department_menu, name) ==
    LET at == {k \in 1..Len(department_menu) : department_menu[k][1] = name}
    IN  department_menu[CHOOSE k \in at : \A j \in at : j <= k][2]

(* The construction gone wrong: the menu name is put among the alternate   *)
(* names whether it differs or not.                                        *)
BuildDepartments_AlwaysAlternate(matched_depts, department_menu, prefix_table, base_url) ==
    LET prefix_lookup ==
            parallel_lists_to_tuple_dict(
                [k \in 1..Len(prefix_table) |-> prefix_table[k][2]],
                [k \in 1..Len(prefix_table) |-> prefix_table[k][1]])
    IN  [k \in 1..Len(matched_depts) |->
            LET department_menu_name == matched_depts[k][1]
                prefix_table_name == matched_depts[k][2]
            IN  Department(prefix_table_name,
                           <<department_menu_name>>,
                           prefix_lookup[prefix_table_name],
                           base_url,
                           url_lookup(department_menu, department_menu_name))]

(* The Department objects force_load builds from the matched names.        *)
BuildDepartments(matched_depts, department_menu, prefix_table, base_url) ==
    LET prefix_lookup ==
            parallel_lists_to_tuple_dict(
                [k \in 1..Len(prefix_table) |-> prefix_table[k][2]],
                [k \in 1..Len(prefix_table) |-> prefix_table[k][1]])
    IN  [k \in 1..Len(matched_depts) |->
            LET department_menu_name == matched_depts[k][1]
                prefix_table_name == matched_depts[k][2]
            IN  Department(prefix_table_name,
                           IF department_menu_name # prefix_table_name
                           THEN <<department_menu_name>> ELSE <<>>,
                           prefix_lookup[prefix_table_name],
                           base_url,
                           url_lookup(department_menu, department_menu_name))]

(* max_processes, the number of scoring processes similar_zip may use.     *)
MaxProcesses == 5

(* What fails in force_load before the names are matched; "" if nothing.   *)
(* The menu names are unzipped first, then the table names.                *)
LoadError(page) ==
    IF IsNone(page) THEN "LoadError"
    ELSE IF parse_department_menu(The(page).options) = <<>> THEN "StopIteration"
    ELSE IF parse_course_prefix_table(The(page).rows) = <<>> THEN "IndexError"
    ELSE ""

(* department_menu_department_names and set(prefix_table_department_names) *)
MenuNames(page) ==
    LET department_menu == parse_department_menu(The(page).options)
    IN  [k \in 1..Len(department_menu) |-> department_menu[k][1]]

TableNames(page) ==
    LET prefix_table == parse_course_prefix_table(The(page).rows)
    IN  {prefix_table[k][2] : k \in 1..Len(prefix_table)}

Failed(self, objects, e) ==
    [ok |-> FALSE, error |-> e, self |-> self, heap |-> objects,
     log |-> None, loads |-> 1, scored |-> {}]

(* The end of force_load gone wrong: a Department of the name of one the   *)
(* reader holds already is not built anew, the one held is kept, with what *)
(* it has cached.                                                          *)
FinishLoad_KeepsDepartments(self, objects, page, matched) ==
    IF ~matched.ok THEN Failed(self, objects, matched.error)
    ELSE IF Len(matched.pairs) # Len(MenuNames(page))
    THEN Failed(self, objects, "AssertionError")
    ELSE LET departments ==
                 BuildDepartments(matched.pairs,
                                  parse_department_menu(The(page).options),
                                  parse_course_prefix_table(The(page).rows),
                                  self.base_url)
             held == IF IsNone(self.departments) THEN {} ELSE Range(The(self.departments))
             kept(k) == {j \in held : objects[j].name = departments[k].name}
         IN  [ok |-> TRUE, error |-> "", loads |-> 1,
              scored |-> matched.scored,
              self |-> [self EXCEPT
                  !.departments = Some([k \in 1..Len(departments) |->
                                           IF kept(k) # {} THEN CHOOSE j \in kept(k) : TRUE
                                           ELSE Len(objects) + k]),
                  !.loaded = TRUE],
              heap |-> objects \o departments,
              log |-> Some(matched.pairs)]

(* force_load from the result of similar_zip on: the assertion, the log,   *)
(* the Departments.                                                        *)
FinishLoad(self, objects, page, matched) ==
    IF ~matched.ok THEN Failed(self, objects, matched.error)
    ELSE IF Len(matched.pairs) # Len(MenuNames(page))
    THEN Failed(self, objects, "AssertionError")
    ELSE LET departments ==
                 BuildDepartments(matched.pairs,
                                  parse_department_menu(The(page).options),
                                  parse_course_prefix_table(The(page).rows),
                                  self.base_url)
         IN  [ok |-> TRUE, error |-> "", loads |-> 1,
              scored |-> matched.scored,
              self |-> [self EXCEPT
                  !.departments = Some([k \in 1..Len(departments) |-> Len(objects) + k]),
                  !.loaded = TRUE],
              heap |-> objects \o departments,
              log |-> Some(matched.pairs)]

(* CourseReader.force_load gone wrong: the cached departments are dropped  *)
(* before the names are matched.                                           *)
CourseReader_force_load_ClearsFirst(self, objects, page, score) ==
    IF LoadError(page) # "" THEN Failed(self, objects, LoadError(page))
    ELSE FinishLoad([self EXCEPT !.departments = None, !.loaded = FALSE], objects, page,
                    similar_zip(MenuNames(page), TableNames(page), score, TRUE))

(* CourseReader.force_load gone wrong: similar_zip is called without       *)
(* direct_first.                                                           *)
CourseReader_force_load_NoDirectFirst(self, objects, page, score) ==
    IF LoadError(page) # "" THEN Failed(self, objects, LoadError(page))
    ELSE FinishLoad(self, objects, page,
                    similar_zip(MenuNames(page), TableNames(page), score, FALSE))

(* CourseReader.force_load on the main page found: None when load_page     *)
(* raises or the page lacks the menu or the table, else its options and    *)
(* its table rows.  objects is the heap before the call.  The result is    *)
(* [ok, error, self, heap, log, loads, scored]; the new Departments are    *)
(* added to the heap only when the call succeeds.                          *)
CourseReader_force_load(self, objects, page, score) ==
    IF LoadError(page) # "" THEN Failed(self, objects, LoadError(page))
    ELSE FinishLoad(self, objects, page,
                    similar_zip(MenuNames(page), TableNames(page), score, TRUE))

(* CourseReader.auto_load                                                  *)
CourseReader_auto_load(self, objects, page, score) ==
    IF ~self.loaded THEN CourseReader_force_load(self, objects, page, score)
    ELSE [ok |-> TRUE, error |-> "", self |-> self, heap |-> objects, log |-> None,
          loads |-> 0, scored |-> {}]

----------------------------------------------------------------------------
(* The lookups.  site gives, for the relative url of a Department, the     *)
(* page found there if a call fetches it.                                  *)

(* What get_prefixes returns after auto_load has ended as r.               *)
PrefixesAfter(r) ==
    [ok |-> r.ok, error |-> r.error, self |-> r.self, loads |-> r.loads,
     value |-> r.self.prefixes]

(* Department.get_prefixes gone wrong: the test of fast is turned round.   *)
Department_get_prefixes_Inverted(self, fast, page) ==
    IF fast
    THEN PrefixesAfter(Department_auto_load(self, page))
    ELSE [ok |-> TRUE, error |-> "", self |-> self, loads |-> 0, value |-> self.prefixes]

(* Department.get_prefixes(fast): [ok, error, self, loads, value].         *)
Department_get_prefixes(self, fast, page) ==
    IF ~fast
    THEN PrefixesAfter(Department_auto_load(self, page))
    ELSE [ok |-> TRUE, error |-> "", self |-> self, loads |-> 0, value |-> self.prefixes]

(* The outcomes of a loop over the Departments: [ok, error, heap, yielded, *)
(* examined, loads].  yielded is what the loop gave out, examined are the  *)
(* Departments whose prefixes it asked for, both in order.  The loop is    *)
(* over, or a call in it raised, or it goes on as rest after a step.       *)
LoopEnd(objects) ==
    [ok |-> TRUE, error |-> "", heap |-> objects, yielded |-> <<>>,
     examined |-> <<>>, loads |-> 0]

LoopRaised(objects, dep, error, loads) ==
    [ok |-> FALSE, error |-> error, heap |-> objects, yielded |-> <<>>,
     examined |-> <<dep>>, loads |-> loads]

LoopStep(dep, yielded, loads, rest) ==
    [rest EXCEPT !.examined = <<dep>> \o @, !.yielded = yielded \o @, !.loads = loads + @]

RECURSIVE lookup_prefix_loop(_, _, _, _, _, _)

(* The body of the loop of lookup_prefix for the i-th Department, whose    *)
(* get_prefixes(fast) has ended as g.                                      *)
lookup_prefix_body(departments, i, prefix, fast, site, objects, g) ==
    IF ~g.ok THEN LoopRaised(objects, departments[i], g.error, g.loads)
    ELSE LoopStep(departments[i],
                  IF Upper(prefix) \in Range(g.value) THEN <<departments[i]>> ELSE <<>>,
                  g.loads,
                  lookup_prefix_loop(departments, i + 1, prefix, fast, site,
                                     [objects EXCEPT ![departments[i]] = g.self]))

(* The loop of lookup_prefix, from the i-th Department on, run to its end. *)
lookup_prefix_loop(departments, i, prefix, fast, site, objects) ==
    IF i > Len(departments) THEN LoopEnd(objects)
    ELSE lookup_prefix_body(departments, i, prefix, fast, site, objects,
             Department_get_prefixes(objects[departments[i]], fast,
                                     site[objects[departments[i]].relative_url]))

(* What a lookup gives when self.departments raises.                       *)
LookupFailed(a) ==
    [ok |-> FALSE, error |-> a.error, self |-> a.self, heap |-> a.heap, log |-> a.log,
     loads |-> a.loads, dept_loads |-> 0, scored |-> a.scored,
     yielded |-> <<>>, examined |-> <<>>]

(* What a lookup gives once self.departments has returned as a and the     *)
(* loop has ended as l.                                                    *)
LookupDone(a, l) ==
    [ok |-> l.ok, error |-> l.error, self |-> a.self, heap |-> l.heap, log |-> a.log,
     loads |-> a.loads + l.loads, dept_loads |-> l.loads, scored |-> a.scored,
     yielded |-> l.yielded, examined |-> l.examined]

(* lookup_prefix after self.departments has ended as a.                    *)
lookup_prefix_from(a, prefix, fast, site) ==
    IF ~a.ok THEN LookupFailed(a)
    ELSE LookupDone(a, lookup_prefix_loop(The(a.self.departments), 1, prefix, fast,
                                          site, a.heap))

(* CourseReader.lookup_prefix(prefix, fast), iterated to its end.          *)
CourseReader_lookup_prefix(self, objects, main, score, prefix, fast, site) ==
    lookup_prefix_from(CourseReader_auto_load(self, objects, main, score), prefix, fast, site)

(* The courses of a course list that have this course code, in order.      *)
CoursesWith(course_list, course_code) ==
    SelectSeq(course_list, LAMBDA course : course.course_code = course_code)

RECURSIVE lookup_course_loop(_, _, _, _, _, _)

(* The search gone wrong: the loop goes on after a Department in which the *)
(* course was found.                                                       *)
lookup_course_search_NoBreak(departments, i, course_code, fast, site, objects, loads, c) ==
    IF ~c.ok
    THEN LoopRaised([objects EXCEPT ![departments[i]] = c.self], departments[i],
                    c.error, loads + c.loads)
    ELSE LoopStep(departments[i], CoursesWith(The(c.self.course_list), course_code),
                  loads + c.loads,
                  lookup_course_loop(departments, i + 1, course_code, fast, site,
                                     [objects EXCEPT ![departments[i]] = c.self]))

(* The body of the loop of lookup_course for the i-th Department, which    *)
(* lookup_prefix has given out and whose course_list has ended as c:       *)
(* the courses with the course code are given out, and if there was one    *)
(* the loop ends.                                                          *)
lookup_course_search(departments, i, course_code, fast, site, objects, loads, c) ==
    IF ~c.ok
    THEN LoopRaised([objects EXCEPT ![departments[i]] = c.self], departments[i],
                    c.error, loads + c.loads)
    ELSE IF CoursesWith(The(c.self.course_list), course_code) # <<>>
    THEN [ok |-> TRUE, error |-> "",
          heap |-> [objects EXCEPT ![departments[i]] = c.self],
          yielded |-> CoursesWith(The(c.self.course_list), course_code),
          examined |-> <<departments[i]>>, loads |-> loads + c.loads]
    ELSE LoopStep(departments[i], <<>>, loads + c.loads,
                  lookup_course_loop(departments, i + 1, course_code, fast, site,
                                     [objects EXCEPT ![departments[i]] = c.self]))

(* The step of lookup_prefix for the i-th Department, as lookup_course     *)
(* drives it: get_prefixes(fast) has ended as g; the Department is given   *)
(* out if it has the prefix, and lookup_course reads its course_list.      *)
lookup_course_body(departments, i, course_code, fast, site, objects, g) ==
    IF ~g.ok THEN LoopRaised(objects, departments[i], g.error, g.loads)
    ELSE IF Upper(course_code.prefix) \notin Range(g.value)
    THEN LoopStep(departments[i], <<>>, g.loads,
                  lookup_course_loop(departments, i + 1, course_code, fast, site,
                                     [objects EXCEPT ![departments[i]] = g.self]))
    ELSE lookup_course_search(departments, i, course_code, fast, site, objects, g.loads,
             Department_auto_load(g.self, site[objects[departments[i]].relative_url]))

(* The loop of lookup_course over the Departments lookup_prefix gives out, *)
(* from the i-th Department on.  lookup_prefix runs only as far as         *)
(* lookup_course asks it to: after the break no Department is looked at.   *)
lookup_course_loop(departments, i, course_code, fast, site, objects) ==
    IF i > Len(departments) THEN LoopEnd(objects)
    ELSE lookup_course_body(departments, i, course_code, fast, site, objects,
             Department_get_prefixes(objects[departments[i]], fast,
                                     site[objects[departments[i]].relative_url]))

(* lookup_course after self.departments has ended as a.                    *)
lookup_course_from(a, code, fast, site) ==
    IF ~a.ok THEN LookupFailed(a)
    ELSE LookupDone(a, lookup_course_loop(The(a.self.departments), 1, code, fast,
                                          site, a.heap))

(* CourseReader.lookup_course(course_code, fast), iterated to its end.     *)
(* course_code is [is_code, value]: the text value, of which               *)
(* courses.CourseCode is made first, or the CourseCode the caller has made *)
(* of it before.                                                           *)
CourseReader_lookup_course(self, objects, main, score, course_code, fast, site) ==
    IF IsNone(CourseCode(course_code.value))
    THEN [ok |-> FALSE, error |-> "CourseCodeError", self |-> self, heap |-> objects,
          log |-> None, loads |-> 0, dept_loads |-> 0, scored |-> {},
          yielded |-> <<>>, examined |-> <<>>]
    ELSE lookup_course_from(CourseReader_auto_load(self, objects, main, score),
                            The(CourseCode(course_code.value)), fast, site)

----------------------------------------------------------------------------
(* The calls a client makes.  The reader is object 0, the Department       *)
(* heap[k] is object k.  A page argument is what the registrar's site      *)
(* serves if the call fetches it.                                          *)

Call(op, self, was_loaded, main, rows, result, scored) ==
    [op |-> op, self |-> self, was_loaded |-> was_loaded, scored |-> scored,
     main |-> IF result.loads > 0 THEN main ELSE None,
     rows |-> IF result.loads > 0 THEN rows ELSE None,
     ok |-> result.ok, error |-> result.error, populated |-> result.loads]

(* No similar_zip call is in progress.                                     *)
Idle == [phase |-> "idle", page |-> None, delivered |-> <<>>]

NoCall ==
    [op |-> "none", self |-> 0, was_loaded |-> FALSE, scored |-> {},
     main |-> None, rows |-> None,
     ok |-> TRUE, error |-> "", populated |-> 0]

(* What a call on the reader leaves behind.                                *)
ReaderEffects(op, page, r, returned) ==
    /\ Len(r.heap) <= MaxHeap
    /\ reader' = r.self
    /\ heap' = r.heap
    /\ log' = IF IsNone(r.log) THEN log ELSE The(r.log)
    /\ last' = Call(op, 0, reader.loaded, page, None, r, r.scored)
    /\ ret' = IF r.ok THEN returned ELSE None
    /\ ever' = [reader |-> ever.reader \/ (r.loads > 0 /\ r.ok),
                heap |-> ever.heap \o [k \in 1..(Len(r.heap) - Len(heap)) |-> FALSE]]
    /\ UNCHANGED scoring_algorithm

ReaderCall(op, page, r, returned) ==
    /\ ReaderEffects(op, page, r, returned)
    /\ UNCHANGED pool

(* What a call on the Department heap[k] leaves behind.                    *)
DepartmentCall(op, k, page, r, returned) ==
    /\ heap' = [heap EXCEPT ![k] = r.self]
    /\ last' = Call(op, k, heap[k].loaded, None, page, r, {})
    /\ ret' = IF r.ok THEN returned ELSE None
    /\ ever' = [ever EXCEPT !.heap[k] = @ \/ (r.loads > 0 /\ r.ok)]
    /\ UNCHANGED <<reader, scoring_algorithm, log, pool>>

(* CourseReader.force_load                                                 *)
ReaderForceLoad(page) ==
    LET r == CourseReader_force_load(reader, heap, page, scoring_algorithm)
    IN  ReaderCall("reader.force_load", page, r, None)

(* CourseReader.get_departments, the departments property                  *)
GetDepartments(page) ==
    LET r == CourseReader_auto_load(reader, heap, page, scoring_algorithm)
    IN  ReaderCall("reader.departments", page, r, Some(r.self.departments))

(* Department.force_load, on the Department heap[k]                        *)
DeptForceLoad(k, page) ==
    LET r == Department_force_load(heap[k], page)
    IN  DepartmentCall("department.force_load", k, page, r, None)

(* Department.get_course_list, the course_list property                    *)
GetCourseList(k, page) ==
    LET r == Department_auto_load(heap[k], page)
    IN  DepartmentCall("department.course_list", k, page, r, Some(r.self.course_list))

----------------------------------------------------------------------------
(* Spec: a reader and its Departments, over a few pages of the site.       *)

Garbage == <<<<"-">>, <<"#">>>>
Header  == <<<<"P">>, <<"D">>>>

Html(k) == <<"p", Digits[k + 1]>>

MainPage(menu_names, prefix_table) ==
    Some([options |-> <<Garbage>> \o [k \in 1..Len(menu_names) |-> <<menu_names[k], Html(k)>>],
          rows |-> <<Header>> \o prefix_table])

MainPages ==
    { None,
      MainPage(<<MATH, CS>>, << <<MAC, Math>>, <<COP, Comp>>, <<MAP, Math>> >>),
      MainPage(<<MATH, CS, Chem>>, << <<MAC, Math>>, <<COP, Comp>> >>),
      MainPage(<<MATH>>, << <<CHM, Chem>> >>),
      MainPage(<<Chem>>, << <<CHM, Chem>> >>) }

Row(course, cred, days, instructors) ==
    [comment |-> FALSE, course |-> course, cred |-> cred, days |-> days,
     instructors |-> instructors]

DeptPages ==
    { None,
      Some(<<Row(Some(MAC2313), Some(Cred3), Some(DaysMWF), Some(Smith)),
             Row(None, None, Some(DaysT), None)>>),
      Some(<<Row(Some(PHY2048), Some(CredVAR), Some(DaysTBA), Some(Smith))>>),
      Some(<<Row(Some(MAC2313), Some(Cred3), Some(DaysMWF), Some(Smith)),
             Row(Some(PHY2048), Some(CredBad), Some(DaysT), Some(Smith))>>) }

NewReader == The(CourseReader(2011, FALL, TRUE).self)

Init ==
    /\ reader = NewReader
    /\ heap = <<>>
    /\ scoring_algorithm = ExactScore
    /\ log = <<>>
    /\ last = NoCall
    /\ ret = None
    /\ ever = [reader |-> FALSE, heap |-> <<>>]
    /\ pool = Idle

Next ==
    \/ \E page \in MainPages : ReaderForceLoad(page)
    \/ \E page \in MainPages : GetDepartments(page)
    \/ \E k \in 1..Len(heap), page \in DeptPages : DeptForceLoad(k, page)
    \/ \E k \in 1..Len(heap), page \in DeptPages : GetCourseList(k, page)

Spec == Init /\ [][Next]_vars

----------------------------------------------------------------------------
(* SpecReconcile: the first call on a new reader, a force_load, over every *)
(* menu and prefix table within the bounds and every scoring function of   *)
(* ScoreTables.                                                            *)

FullTable ==
    << <<MAC, Math>>, <<COP, Comp>>, <<MAP, Math>>, <<CHM, Chem>>, <<MAC, MATH>> >>

TableFor(S) == SelectSeq(FullTable, LAMBDA row : row[2] \in S)

WideMainPages ==
    {MainPage(m, TableFor(S)) : m \in SeqsUpTo(MenuLabels, MaxMenu), S \in SUBSET TableLabels}

InitReconcile ==
    /\ reader = NewReader
    /\ heap = <<>>
    /\ scoring_algorithm \in ScoreTables
    /\ log = <<>>
    /\ last = NoCall
    /\ ret = None
    /\ ever = [reader |-> FALSE, heap |-> <<>>]
    /\ pool = Idle

NextReconcile ==
    /\ last = NoCall
    /\ \E page \in WideMainPages : ReaderForceLoad(page)

SpecReconcile == InitReconcile /\ [][NextReconcile]_vars

----------------------------------------------------------------------------
(* SpecParallel: the first call on a new reader, a force_load, with the    *)
(* scoring of similar_zip done by its workers, one step for each piece     *)
(* that arrives.                                                           *)

FlatScore == [p \in NormForms \X NormForms |-> 1]

(* force_load has fetched the page and similar_zip has started its         *)
(* workers.                                                                *)
StartMatch(page) ==
    /\ pool.phase = "idle" /\ last = NoCall
    /\ LoadError(page) = ""
    /\ Len(MenuNames(page)) <= Cardinality(TableNames(page))
    /\ Len(MenuNames(page)) <= MaxHeap
    /\ pool' = [phase |-> "scoring", page |-> page, delivered |-> <<>>]
    /\ UNCHANGED <<reader, heap, scoring_algorithm, log, last, ret, ever>>

PoolWorkers == WorkersFor(MenuNames(pool.page), TableNames(pool.page), TRUE, MaxProcesses)

(* The piece of worker w arrives.                                          *)
Deliver(w) ==
    /\ pool.phase = "scoring"
    /\ w \in 1..PoolWorkers
    /\ w \notin Range(pool.delivered)
    /\ pool' = [pool EXCEPT !.delivered = Append(@, w)]
    /\ UNCHANGED <<reader, heap, scoring_algorithm, log, last, ret, ever>>

(* Every piece has arrived: similar_zip returns and force_load goes on.    *)
FinishMatch ==
    /\ pool.phase = "scoring"
    /\ Len(pool.delivered) = PoolWorkers
    /\ LET matched == similar_zip_parallel(MenuNames(pool.page), TableNames(pool.page),
                                           scoring_algorithm, TRUE, MaxProcesses,
                                           pool.delivered)
           r == FinishLoad(reader, heap, pool.page, matched)
       IN  ReaderEffects("reader.force_load", pool.page, r, None)
    /\ pool' = [pool EXCEPT !.phase = "done"]

InitParallel ==
    /\ reader = NewReader
    /\ heap = <<>>
    /\ scoring_algorithm \in {ExactScore, FlatScore}
    /\ log = <<>>
    /\ last = NoCall
    /\ ret = None
    /\ ever = [reader |-> FALSE, heap |-> <<>>]
    /\ pool = Idle

NextParallel ==
    \/ \E page \in WideMainPages : StartMatch(page)
    \/ \E w \in 1..MaxProcesses : Deliver(w)
    \/ FinishMatch

SpecParallel == InitParallel /\ [][NextParallel]_vars

----------------------------------------------------------------------------
(* SpecAssemble: the first call on a new Department, a force_load, over    *)
(* every page of at most MaxRows rows.                                     *)

NewDepartment ==
    Department(Math, <<MATH>>, <<MAC, MAP>>, NewReader.base_url, Html(1))

InitAssemble ==
    /\ reader = NewReader
    /\ heap = <<NewDepartment>>
    /\ scoring_algorithm = ExactScore
    /\ log = <<>>
    /\ last = NoCall
    /\ ret = None
    /\ ever = [reader |-> FALSE, heap |-> <<FALSE>>]
    /\ pool = Idle

NextAssemble ==
    /\ last = NoCall
    /\ \E rows \in SeqsUpTo(Rows, MaxRows) : DeptForceLoad(1, Some(rows))

SpecAssemble == InitAssemble /\ [][NextAssemble]_vars

----------------------------------------------------------------------------
(* SpecCells: one call on a Department, new or loaded before, over every   *)
(* page of at most MaxRows rows whose cells include the odd ones: a course *)
(* cell that is no course code, a credit cell that is no number, a day     *)
(* cell that says "Tba".                                                   *)

EdgeRows ==
    [comment : {FALSE}, course : {Some(MAC2313), Some(BadCode)},
     cred : {Some(Cred3), Some(CredBad)}, days : {Some(DaysMWF)},
     instructors : {Some(Smith)}]
    \cup [comment : {FALSE}, course : {None}, cred : {None},
          days : {None, Some(DaysT), Some(DaysTba)}, instructors : {None}]
    \cup {CommentRow}

(* A Department whose page has been loaded before.                         *)
LoadedDepartment ==
    Department_force_load(NewDepartment,
        Some(<<Row(Some(PHY2048), Some(CredVAR), Some(DaysTBA), Some(Smith))>>)).self

InitCells ==
    /\ reader = NewReader
    /\ heap \in {<<NewDepartment>>, <<LoadedDepartment>>}
    /\ scoring_algorithm = ExactScore
    /\ log = <<>>
    /\ last = NoCall
    /\ ret = None
    /\ ever = [reader |-> FALSE, heap |-> <<heap[1].loaded>>]
    /\ pool = Idle

NextCells ==
    \/ last = NoCall /\ \E rows \in SeqsUpTo(EdgeRows, MaxRows) : DeptForceLoad(1, Some(rows))
    \/ last = NoCall /\ \E rows \in SeqsUpTo(EdgeRows, MaxRows) : GetCourseList(1, Some(rows))

SpecCells == InitCells /\ [][NextCells]_vars

----------------------------------------------------------------------------
(* SpecCredits: the first call on a new Department, a force_load of a page *)
(* of one course, over every credit cell of at most MaxCell characters.    *)

CreditChars == {"V", "v", "a", "r", "1", "-"}

CreditCells == {None} \cup {Some(t) : t \in SeqsUpTo(CreditChars, MaxCell) \ {<<>>}}

InitCredits ==
    /\ reader = NewReader
    /\ heap = <<NewDepartment>>
    /\ scoring_algorithm = ExactScore
    /\ log = <<>>
    /\ last = NoCall
    /\ ret = None
    /\ ever = [reader |-> FALSE, heap |-> <<FALSE>>]
    /\ pool = Idle

NextCredits ==
    /\ last = NoCall
    /\ \E cred \in CreditCells :
          DeptForceLoad(1, Some(<<Row(Some(MAC2313), cred, Some(DaysMWF), Some(Smith))>>))

SpecCredits == InitCredits /\ [][NextCredits]_vars

----------------------------------------------------------------------------
(* SpecGroup: one call of __parallel_lists_to_tuple_dict, over every two   *)
(* lists of at most MaxPairs elements each.                                *)

GroupKeys == {"a", "b", "c"}
GroupValues == {1, 2, 3}

(* tuple_dict = self.__parallel_lists_to_tuple_dict(list_a, list_b)        *)
TupleDict(list_a, list_b) ==
    /\ last' = [NoCall EXCEPT !.op = "reader.parallel_lists_to_tuple_dict",
                              !.main = Some([list_a |-> list_a, list_b |-> list_b])]
    /\ ret' = Some(parallel_lists_to_tuple_dict(list_a, list_b))
    /\ UNCHANGED <<reader, heap, scoring_algorithm, log, ever, pool>>

InitGroup ==
    /\ reader = NewReader
    /\ heap = <<>>
    /\ scoring_algorithm = ExactScore
    /\ log = <<>>
    /\ last = NoCall
    /\ ret = None
    /\ ever = [reader |-> FALSE, heap |-> <<>>]
    /\ pool = Idle

NextGroup ==
    /\ last = NoCall
    /\ \E list_a \in SeqsUpTo(GroupKeys, MaxPairs), list_b \in SeqsUpTo(GroupValues, MaxPairs) :
          TupleDict(list_a, list_b)

SpecGroup == InitGroup /\ [][NextGroup]_vars

----------------------------------------------------------------------------
(* SpecConstruct: a client that has a reader constructs another, for any   *)
(* year from MinYear to MaxYear, any semester or a value that is none, and *)
(* either listing.                                                         *)

NoSemester == "NONE"

(* CourseReader(year, semester, full): the client goes on with the new     *)
(* reader if there is one, and with the one it had if the constructor      *)
(* raises.  The constructor asks the browser for no page.                  *)
Construct(year, semester, full) ==
    LET r == CourseReader(year, semester, full)
    IN  /\ last' = [NoCall EXCEPT
                        !.op = "CourseReader",
                        !.main = Some([year |-> year, semester |-> semester, full |-> full]),
                        !.ok = r.ok, !.error = r.error]
        /\ ret' = r.self
        /\ reader' = IF r.ok THEN The(r.self) ELSE reader
        /\ ever' = IF r.ok THEN [ever EXCEPT !.reader = FALSE] ELSE ever
        /\ UNCHANGED <<heap, scoring_algorithm, log, pool>>

InitConstruct ==
    /\ reader = NewReader
    /\ heap = <<>>
    /\ scoring_algorithm = ExactScore
    /\ log = <<>>
    /\ last = NoCall
    /\ ret = None
    /\ ever = [reader |-> FALSE, heap |-> <<>>]
    /\ pool = Idle

NextConstruct ==
    /\ last = NoCall
    /\ \E year \in MinYear..MaxYear, semester \in {SPRING, SUMMER, FALL, NoSemester},
          full \in BOOLEAN :
          Construct(year, semester, full)

SpecConstruct == InitConstruct /\ [][NextConstruct]_vars

----------------------------------------------------------------------------
(* SpecLookup: a reader whose three Departments all have MAC among the     *)
(* prefixes of the prefix table, and the lookups on them.                  *)

LookupMenu == <<MATH, CS, Chem>>

LookupMain ==
    MainPage(LookupMenu, << <<MAC, Math>>, <<MAC, Comp>>, <<PHY, Comp>>, <<MAC, Chem>> >>)

LookupUrls == {Html(k) : k \in 1..Len(LookupMenu)}

(* The department pages: none, one with MAC 2313 twice and PHY 2048        *)
(* between, one with PHY 2048 alone.                                       *)
LookupPages ==
    { None,
      Some(<<Row(Some(MAC2313), Some(Cred3), Some(DaysMWF), Some(Smith)),
             Row(Some(PHY2048), Some(Cred3), Some(DaysT), Some(Smith)),
             Row(Some(MAC2313), Some(CredVAR), Some(DaysT), Some(Smith))>>),
      Some(<<Row(Some(PHY2048), Some(Cred3), Some(DaysMWF), Some(Smith))>>) }

Sites == [LookupUrls -> LookupPages]

mac == <<"m", "a", "c">>

LookupPrefixes == {MAC, PHY, mac}

LookupCodes ==
    { [is_code |-> FALSE, value |-> MAC2313],
      [is_code |-> FALSE, value |-> PHY2048],
      [is_code |-> FALSE, value |-> BadCode],
      [is_code |-> TRUE, value |-> MAC2313] }

(* The record of a lookup: that of a call, and with it the argument, fast, *)
(* the Departments examined and the number of department pages loaded.     *)
LookupCall(op, self, was_loaded, main, arg, fast, r, examined, dept_loads) ==
    [op |-> op, self |-> self, was_loaded |-> was_loaded, scored |-> {},
     main |-> IF r.loads > dept_loads THEN main ELSE None,
     rows |-> None,
     ok |-> r.ok, error |-> r.error, populated |-> r.loads,
     arg |-> arg, fast |-> fast, examined |-> examined, dept_loads |-> dept_loads]

(* What a lookup on the reader leaves behind.                              *)
LookupEffects(op, main, arg, fast, r) ==
    /\ Len(r.heap) <= MaxHeap
    /\ reader' = r.self
    /\ heap' = r.heap
    /\ log' = IF IsNone(r.log) THEN log ELSE The(r.log)
    /\ last' = LookupCall(op, 0, reader.loaded, main, arg, fast, r, r.examined, r.dept_loads)
    /\ ret' = IF r.ok THEN Some(r.yielded) ELSE None
    /\ ever' = [reader |-> ever.reader \/ r.self.loaded,
                heap |-> [k \in 1..Len(r.heap) |->
                            (k <= Len(heap) /\ ever.heap[k]) \/ r.heap[k].loaded]]
    /\ UNCHANGED <<scoring_algorithm, pool>>

(* list(reader.lookup_prefix(prefix, fast))                                *)
LookupPrefix(prefix, fast, main, site) ==
    LookupEffects("reader.lookup_prefix", main, prefix, fast,
        CourseReader_lookup_prefix(reader, heap, main, scoring_algorithm, prefix, fast, site))

(* list(reader.lookup_course(course_code, fast))                           *)
LookupCourse(course_code, fast, main, site) ==
    LookupEffects("reader.lookup_course", main, course_code, fast,
        CourseReader_lookup_course(reader, heap, main, scoring_algorithm, course_code,
                                   fast, site))

(* What get_prefixes on the Department heap[k] leaves behind.              *)
PrefixesEffects(k, fast, r) ==
    /\ heap' = [heap EXCEPT ![k] = r.self]
    /\ last' = LookupCall("department.get_prefixes", k, heap[k].loaded, None, None,
                          fast, r, <<k>>, r.loads)
    /\ ret' = IF r.ok THEN Some(r.value) ELSE None
    /\ ever' = [ever EXCEPT !.heap[k] = @ \/ (r.loads > 0 /\ r.ok)]
    /\ UNCHANGED <<reader, scoring_algorithm, log, pool>>

(* Department.get_prefixes(fast), on the Department heap[k]                *)
GetPrefixes(k, fast, page) ==
    PrefixesEffects(k, fast, Department_get_prefixes(heap[k], fast, page))

InitLookup ==
    /\ reader = NewReader
    /\ heap = <<>>
    /\ scoring_algorithm = ExactScore
    /\ log = <<>>
    /\ last = NoCall
    /\ ret = None
    /\ ever = [reader |-> FALSE, heap |-> <<>>]
    /\ pool = Idle

NextLookup ==
    \/ \E main \in {None, LookupMain} : GetDepartments(main)
    \/ \E k \in 1..Len(heap), fast \in BOOLEAN, page \in LookupPages : GetPrefixes(k, fast, page)
    \/ \E prefix \in LookupPrefixes, fast \in BOOLEAN, site \in Sites :
          LookupPrefix(prefix, fast, LookupMain, site)
    \/ \E course_code \in LookupCodes, fast \in BOOLEAN, site \in Sites :
          LookupCourse(course_code, fast, LookupMain, site)

SpecLookup == InitLookup /\ [][NextLookup]_vars

----------------------------------------------------------------------------
(* The lazy loading of the reader and of a Department.                     *)

Gets == {"reader.departments", "department.course_list"}
ForceLoads == {"reader.force_load", "department.force_load"}

(* The cached collection of object k: the reader's departments, or a       *)
(* Department's course list.                                               *)
Cached(r, h, k) == IF k = 0 THEN r.departments ELSE h[k].course_list
Loaded(r, h, k) == IF k = 0 THEN r.loaded ELSE h[k].loaded

(* The course codes of the rows that have a course cell, in row order.     *)
PrimaryCodes(rows) ==
    LET kept == SelectSeq(rows, LAMBDA d : ~d.comment /\ ~IsNone(d.course))
    IN  [i \in 1..Len(kept) |-> The(CourseCode(The(kept[i].course)))]

CodesOf(course_list) == [i \in 1..Len(course_list) |-> course_list[i].course_code]

(* C1: a get() that does not fail runs one population when the object is   *)
(* not loaded and none when it is; on a loaded object it leaves the cached *)
(* collection as it is and returns it.  So gets with no refresh between    *)
(* them populate once, on the first.                                       *)
C1_GetPopulatesOnce ==
    [][(last'.op \in Gets /\ last'.ok) =>
          LET k == last'.self
          IN  /\ Loaded(reader', heap', k)
              /\ ret' = Some(Cached(reader', heap', k))
              /\ last'.populated = IF Loaded(reader, heap, k) THEN 0 ELSE 1
              /\ Loaded(reader, heap, k) =>
                    /\ Cached(reader', heap', k) = Cached(reader, heap, k)
                    /\ heap' = heap /\ reader' = reader]_vars

C1_Witness ==
    /\ last.op = "department.course_list"
    /\ last.was_loaded /\ last.ok /\ last.populated = 0
    /\ ret = Some(heap[last.self].course_list)
    /\ reader.loaded

(* C2: force_load runs a population every time, loaded or not; when it     *)
(* succeeds the object is loaded and holds the collection built from the   *)
(* page just fetched: for a Department the courses of that page's rows,    *)
(* for the reader one new Department per menu name.                        *)
C2_ForceLoadRepopulates ==
    [][(last'.op \in ForceLoads) =>
          LET k == last'.self
          IN  /\ last'.populated = 1
              /\ last'.ok =>
                    /\ Loaded(reader', heap', k)
                    /\ k > 0 => /\ ~IsNone(heap'[k].course_list)
                                /\ CodesOf(The(heap'[k].course_list))
                                      = PrimaryCodes(The(last'.rows))
                    /\ k = 0 => /\ ~IsNone(reader'.departments)
                                /\ Len(The(reader'.departments))
                                      = Len(The(last'.main).options) - 1
                                /\ \A j \in Range(The(reader'.departments)) :
                                      j > Len(heap) /\ j <= Len(heap')]_vars

C2_Witness ==
    /\ last.op = "department.force_load" /\ last.was_loaded /\ last.ok
    /\ CodesOf(The(heap[last.self].course_list)) = <<The(CourseCode(PHY2048))>>

(* C3: an object is loaded exactly if a population of it has completed,    *)
(* and a loaded object stays loaded whatever is called, failing or not.    *)
C3_LoadedIffPopulated ==
    /\ [](/\ reader.loaded <=> ever.reader
          /\ \A k \in 1..Len(heap) : heap[k].loaded <=> ever.heap[k])
    /\ [][/\ reader.loaded => reader'.loaded
          /\ \A k \in 1..Len(heap) : heap[k].loaded => heap'[k].loaded]_vars

C3_Witness ==
    /\ last.op = "department.force_load" /\ last.was_loaded /\ ~last.ok
    /\ heap[last.self].loaded
    /\ \E j \in 1..Len(heap) : ~heap[j].loaded

(* C4: a call whose population fails reports the error, returns nothing    *)
(* and leaves the reader, every Department and the log as they were.       *)
C4_FailureLeavesCache ==
    [][~last'.ok =>
          /\ last'.error # "" /\ ret' = None
          /\ reader' = reader /\ heap' = heap /\ log' = log /\ ever' = ever]_vars

C4_Witness ==
    /\ last.op = "department.force_load" /\ last.was_loaded /\ ~last.ok
    /\ last.error = "ValueError"
    /\ ~IsNone(heap[last.self].course_list)

----------------------------------------------------------------------------
(* The matching of the department names.                                   *)

(* The names of a main page as served: the menu's, without the first       *)
(* option, and the prefix table's, without the header.                     *)
MenuNamesOf(page) ==
    [k \in 1..(Len(The(page).options) - 1) |-> The(page).options[k + 1][1]]

TableNamesOf(page) == {The(page).rows[k][2] : k \in 2..Len(The(page).rows)}

(* The reader's call last fetched a main page with a menu and a table.     *)
Matched ==
    /\ last.op \in {"reader.force_load", "reader.departments"}
    /\ last.populated = 1
    /\ ~IsNone(last.main)
    /\ MenuNamesOf(last.main) # <<>>
    /\ TableNamesOf(last.main) # {}

(* C5: with at least as many table names as menu names the match           *)
(* succeeds and gives one pair per menu name, in menu order, each with a   *)
(* table name of its own; the assertion holds and as many Departments are  *)
(* built.                                                                  *)
C5_ReconcileOneToOne ==
    (Matched /\ Cardinality(TableNamesOf(last.main)) >= Len(MenuNamesOf(last.main))) =>
        LET menu == MenuNamesOf(last.main)
        IN  /\ last.ok
            /\ Len(log) = Len(menu)
            /\ \A i \in 1..Len(menu) :
                  /\ log[i][1] = menu[i]
                  /\ log[i][2] \in TableNamesOf(last.main)
            /\ \A i, j \in 1..Len(menu) : i # j => log[i][2] # log[j][2]
            /\ Len(The(reader.departments)) = Len(menu)

C5_Witness ==
    /\ Matched /\ last.ok
    /\ Len(log) = 3
    /\ log[1][1] = log[2][1]
    /\ last.scored # {}
    /\ Cardinality(TableNamesOf(last.main)) > 3

(* C6: with more menu names than table names the match fails with the      *)
(* UnderdeterminedMatchError; no pairs are logged, no Department is built, *)
(* and the reader keeps its departments and its loaded flag.               *)
C6_UnderdeterminedFails ==
    [][(Matched' /\ Len(MenuNamesOf(last'.main)) > Cardinality(TableNamesOf(last'.main))) =>
          /\ ~last'.ok /\ last'.error = "UnderdeterminedMatchError"
          /\ ret' = None
          /\ log' = log /\ heap' = heap /\ reader' = reader]_vars

C6_Witness ==
    /\ Matched /\ last.op = "reader.force_load" /\ last.was_loaded
    /\ last.error = "UnderdeterminedMatchError"
    /\ reader.loaded /\ ~IsNone(reader.departments)
    /\ \E k \in 1..Len(heap) : heap[k].loaded

(* The i-th menu name finds a table name of its normalized form that no    *)
(* earlier menu name has claimed.                                          *)
FindsDirectMatch(menu, names, i) ==
    Cardinality({j \in 1..(i - 1) : Normalize(menu[j]) = Normalize(menu[i])})
        < Cardinality({t \in names : Normalize(t) = Normalize(menu[i])})

(* C8: such a menu name is paired with a table name of its normalized      *)
(* form, whatever the scores, and neither of the two is among the pairs    *)
(* that are scored.                                                        *)
C8_DirectMatchFirst ==
    (Matched /\ last.ok) =>
        LET menu == MenuNamesOf(last.main)
        IN  \A i \in 1..Len(menu) :
                FindsDirectMatch(menu, TableNamesOf(last.main), i) =>
                    /\ Normalize(log[i][2]) = Normalize(menu[i])
                    /\ \A c \in last.scored : c[1] # i /\ c[2] # log[i][2]

(* A direct match made although another table name, earlier in the order,  *)
(* scores as high; a second menu name goes through the scoring.            *)
C8_Witness ==
    /\ Matched /\ last.ok
    /\ \E i \in 1..Len(log) :
          /\ FindsDirectMatch(MenuNamesOf(last.main), TableNamesOf(last.main), i)
          /\ log[i][1] # log[i][2]
          /\ \E t \in TableNamesOf(last.main) :
                /\ Normalize(t) # Normalize(log[i][1])
                /\ Rank(t) < Rank(log[i][2])
                /\ scoring_algorithm[<<Normalize(log[i][1]), Normalize(t)>>]
                      >= scoring_algorithm[<<Normalize(log[i][1]), Normalize(log[i][2])>>]
    /\ last.scored # {}

----------------------------------------------------------------------------
(* The course list built from the rows of a department page.               *)

(* A Department's force_load has just read a page and succeeded.           *)
Assembled ==
    /\ last.op = "department.force_load" /\ last.ok /\ ~IsNone(last.rows)

IsPrimary(d) == ~d.comment /\ ~IsNone(d.course)

(* The row's day cell is non-empty and does not hold "tba".                *)
HasMeeting(d) ==
    ~IsNone(d.days) /\ ~Contains(<<"t", "b", "a">>, Lower(The(d.days)))

(* The position, among the rows, of the k-th row with a course cell.       *)
PrimaryAt(rows, k) ==
    CHOOSE i \in 1..Len(rows) :
        IsPrimary(rows[i]) /\ Cardinality({j \in 1..i : IsPrimary(rows[j])}) = k

PrimaryCount(rows) == Cardinality({i \in 1..Len(rows) : IsPrimary(rows[i])})

(* C9: a load that succeeds gives one course per row with a course cell    *)
(* and none for the other rows; the k-th course has the code, the credits  *)
(* and the instructors of the k-th such row.                               *)
C9_OneRecordPerPrimaryRow ==
    Assembled =>
        LET rows == The(last.rows)
            course_list == The(heap[last.self].course_list)
        IN  /\ Len(course_list) = PrimaryCount(rows)
            /\ \A k \in 1..Len(course_list) :
                  LET d == rows[PrimaryAt(rows, k)]
                  IN  /\ CourseCode(The(d.course)) = Some(course_list[k].course_code)
                      /\ ParseInt(The(d.cred)) = Some(course_list[k].credits)
                      /\ course_list[k].instructors = <<The(d.instructors)>>

C9_Witness ==
    /\ Assembled
    /\ Len(The(last.rows)) = 3
    /\ ~IsPrimary(The(last.rows)[2]) /\ HasMeeting(The(last.rows)[2])
    /\ Len(The(heap[1].course_list)) = 2
    /\ The(heap[1].course_list)[1].course_code.prefix = PHY
    /\ The(heap[1].course_list)[2].course_code.prefix = MAC

(* The meetings of the k-th course of the page: the day cells, in row      *)
(* order, of the rows from its own to the one before the next row with a   *)
(* course cell, those without a meeting left out.                          *)
MeetingsOf(rows, k) ==
    LET from == PrimaryAt(rows, k)
        to == IF k < PrimaryCount(rows) THEN PrimaryAt(rows, k + 1) - 1 ELSE Len(rows)
        own == SelectSeq(SubSeq(rows, from, to), HasMeeting)
    IN  [m \in 1..Len(own) |-> [days |-> The(own[m].days)]]

RECURSIVE TotalMeetings(_)
TotalMeetings(course_list) ==
    IF course_list = <<>> THEN 0
    ELSE Len(Head(course_list).meetings) + TotalMeetings(Tail(course_list))

(* C10: after a load that succeeds every course holds the meeting of its   *)
(* own row, if any, followed by those of the rows without a course cell    *)
(* that come before the next course, in row order, and nothing else; the   *)
(* meetings of all courses are as many as the rows that have a meeting.    *)
C10_MeetingsFollowTheirCourse ==
    Assembled =>
        LET rows == The(last.rows)
            course_list == The(heap[last.self].course_list)
        IN  /\ Len(course_list) = PrimaryCount(rows)
            /\ \A k \in 1..Len(course_list) :
                  course_list[k].meetings = MeetingsOf(rows, k)
            /\ TotalMeetings(course_list)
                  = Cardinality({i \in 1..Len(rows) : HasMeeting(rows[i])})

C10_Witness ==
    /\ Assembled
    /\ Len(The(heap[1].course_list)) = 2
    /\ The(heap[1].course_list)[1].meetings = <<>>
    /\ The(heap[1].course_list)[2].meetings = <<[days |-> DaysMWF], [days |-> DaysT]>>

----------------------------------------------------------------------------
(* The scoring by several processes.                                       *)

(* C7: in whatever order the pieces of the workers arrive, force_load      *)
(* ends as it does when one process runs similar_zip: the same pairs in    *)
(* the same order, the same reader and the same Departments.  So two calls *)
(* on the same page and scores give the same pairs.                        *)
C7_ParallelScoringDeterministic ==
    pool.phase = "done" =>
        LET one == CourseReader_force_load(NewReader, <<>>, pool.page, scoring_algorithm)
        IN  /\ last.ok = one.ok
            /\ log = The(one.log)
            /\ reader = one.self
            /\ heap = one.heap

(* All five workers were used, their pieces did not arrive in the order of *)
(* the workers, and pairs of equal score had to be told apart.             *)
C7_Witness ==
    /\ pool.phase = "done" /\ last.ok
    /\ Len(pool.delivered) = MaxProcesses
    /\ pool.delivered[1] > pool.delivered[2]
    /\ scoring_algorithm = FlatScore
    /\ Cardinality(last.scored) > MaxProcesses

----------------------------------------------------------------------------
(* Rows that go wrong, and rows that are dropped.                          *)

(* The call has fetched a department page and read its rows.               *)
ReadRows(call) ==
    /\ call.op \in {"department.force_load", "department.course_list"}
    /\ call.populated = 1
    /\ ~IsNone(call.rows)

IsContinuation(d) == ~d.comment /\ IsNone(d.course)

Without(rows, i) == SubSeq(rows, 1, i - 1) \o SubSeq(rows, i + 1, Len(rows))

(* C11: a row without a course cell whose day cell is empty or holds "tba" *)
(* in any letter case adds nothing and raises nothing: the load ends as    *)
(* the load of the page without that row does, with the same outcome, the  *)
(* same courses and the same meetings; a page of such rows alone loads     *)
(* into an empty course list.                                              *)
C11_TbaContinuationDropped ==
    [][ReadRows(last') =>
          LET rows == The(last'.rows)
              k == last'.self
          IN  /\ \A i \in 1..Len(rows) :
                    (IsContinuation(rows[i]) /\ ~HasMeeting(rows[i])) =>
                        LET other == Department_force_load(heap[k], Some(Without(rows, i)))
                        IN  /\ last'.ok = other.ok
                            /\ last'.error = other.error
                            /\ heap'[k] = other.self
              /\ (\A i \in 1..Len(rows) :
                     rows[i].comment \/ (IsContinuation(rows[i]) /\ ~HasMeeting(rows[i])))
                    => last'.ok /\ heap'[k].course_list = Some(<<>>)]_vars

(* A "Tba" row before the first course, an empty one after it.             *)
C11_Witness ==
    /\ ReadRows(last) /\ last.ok
    /\ Len(The(last.rows)) = 3
    /\ The(last.rows)[1].days = Some(DaysTba) /\ IsContinuation(The(last.rows)[1])
    /\ The(last.rows)[3].days = None /\ IsContinuation(The(last.rows)[3])
    /\ Len(The(heap[1].course_list)) = 1
    /\ The(heap[1].course_list)[1].meetings = <<[days |-> DaysMWF]>>

(* The rows without a course cell that no row with one comes before.       *)
Orphans(rows) ==
    {i \in 1..Len(rows) :
        IsContinuation(rows[i]) /\ \A j \in 1..(i - 1) : ~IsPrimary(rows[j])}

(* C12 as claimed: a page whose first row has no course cell never loads,  *)
(* whether that row has a meeting or not.                                  *)
C12_OrphanAlwaysFails ==
    (ReadRows(last) /\ The(last.rows) # <<>> /\ IsContinuation(The(last.rows)[1]))
        => ~last.ok

(* C12, amended: the load fails with an IndexError exactly if a row with a *)
(* meeting and without a course cell comes before every row with a course  *)
(* cell; such rows without a meeting are dropped and raise nothing.        *)
C12_OrphanMeetingFails ==
    ReadRows(last) =>
        LET rows == The(last.rows)
        IN  /\ (\E i \in Orphans(rows) : HasMeeting(rows[i]))
                  <=> (~last.ok /\ last.error = "IndexError")
            /\ (\A i \in 1..Len(rows) : rows[i].comment \/ i \in Orphans(rows))
                  => (last.ok <=> \A i \in Orphans(rows) : ~HasMeeting(rows[i]))

(* A first row that is dropped, a second that raises.                      *)
C12_Witness ==
    /\ ReadRows(last) /\ last.error = "IndexError"
    /\ Len(The(last.rows)) = 3
    /\ The(last.rows)[1].days = Some(DaysTba) /\ IsContinuation(The(last.rows)[1])
    /\ The(last.rows)[2].days = Some(DaysT) /\ IsContinuation(The(last.rows)[2])
    /\ IsPrimary(The(last.rows)[3])

(* The credit cell is no number and does not say "var"; the course cell is *)
(* no course code.                                                         *)
BadCredit(d) ==
    \/ IsNone(d.cred)
    \/ /\ ~Contains(<<"v", "a", "r">>, Lower(The(d.cred)))
       /\ IsNone(ParseInt(The(d.cred)))

BadCourseCode(d) == IsNone(CourseCode(The(d.course)))

(* C13: a page with a row whose credit or course code cannot be parsed     *)
(* does not load.  The call raises and returns nothing; the Department     *)
(* keeps the course list, the prefixes and the loaded flag it had, so no   *)
(* course of that page, of the rows before the bad one either, is in its   *)
(* course list.  Unless a meeting without a course came first, the error   *)
(* is that of the credit or of the course code.                            *)
C13_BadRowAborts ==
    [][(ReadRows(last') /\ \E i \in 1..Len(The(last'.rows)) :
            IsPrimary(The(last'.rows)[i])
            /\ (BadCredit(The(last'.rows)[i]) \/ BadCourseCode(The(last'.rows)[i])))
       => LET rows == The(last'.rows)
          IN  /\ ~last'.ok /\ ret' = None
              /\ heap' = heap /\ ever' = ever
              /\ last'.error \in {"ValueError", "CourseCodeError", "IndexError"}
              /\ last'.error = "IndexError" <=> \E i \in Orphans(rows) : HasMeeting(rows[i])]_vars

(* A Department loaded before; a good row, then one with a bad course      *)
(* code.                                                                   *)
C13_Witness ==
    /\ ReadRows(last) /\ last.was_loaded /\ last.error = "CourseCodeError"
    /\ Len(The(last.rows)) = 2
    /\ IsPrimary(The(last.rows)[1])
    /\ ~BadCredit(The(last.rows)[1]) /\ ~BadCourseCode(The(last.rows)[1])
    /\ heap[1] = LoadedDepartment

----------------------------------------------------------------------------
(* The credits of a course.                                                *)

(* C14: a credit cell that holds "var", in any letter case and anywhere in *)
(* its text, gives the credits -1, the mark of variable credits, and the   *)
(* load succeeds; any other cell gives the integer its text denotes, and   *)
(* a cell that is empty or denotes none makes the load fail.               *)
C14_VarIsTheSentinel ==
    (ReadRows(last) /\ Len(The(last.rows)) = 1 /\ IsPrimary(The(last.rows)[1])) =>
        LET cred == The(last.rows)[1].cred
            course_list == The(heap[last.self].course_list)
        IN  IF IsNone(cred) THEN ~last.ok /\ last.error = "AttributeError"
            ELSE IF \E i \in 1..(Len(The(cred)) - 2) :
                        /\ The(cred)[i] \in {"v", "V"}
                        /\ The(cred)[i + 1] \in {"a", "A"}
                        /\ The(cred)[i + 2] \in {"r", "R"}
            THEN last.ok /\ course_list[1].credits = -1
            ELSE IF IsNone(ParseInt(The(cred)))
            THEN ~last.ok /\ last.error = "ValueError"
            ELSE last.ok /\ course_list[1].credits = The(ParseInt(The(cred)))

(* "1Var": the word in mixed case, after a digit.                          *)
C14_Witness ==
    /\ ReadRows(last) /\ last.ok
    /\ The(last.rows)[1].cred = Some(<<"1", "V", "a", "r">>)
    /\ The(heap[1].course_list)[1].credits = -1

----------------------------------------------------------------------------
(* The prefixes of a loaded Department.                                    *)

(* The place in the course list of the first course with this prefix.      *)
FirstWith(course_list, p) ==
    CHOOSE j \in 1..Len(course_list) :
        /\ course_list[j].course_code.prefix = p
        /\ \A m \in 1..(j - 1) : course_list[m].course_code.prefix # p

(* C15: after a load that succeeds the prefixes are those of the courses   *)
(* of the course list and no others, each once, in the order in which      *)
(* they first occur there; of the prefixes the Department was built with   *)
(* only those that some course has are left.                               *)
C15_PrefixesExact ==
    Assembled =>
        LET course_list == The(heap[last.self].course_list)
            prefixes == heap[last.self].prefixes
        IN  /\ Range(prefixes) = {course_list[j].course_code.prefix : j \in 1..Len(course_list)}
            /\ \A i, j \in 1..Len(prefixes) : i # j => prefixes[i] # prefixes[j]
            /\ \A i, j \in 1..Len(prefixes) :
                  i < j => FirstWith(course_list, prefixes[i]) < FirstWith(course_list, prefixes[j])
            /\ heap[last.self].loaded

(* PHY, MAC, PHY: a prefix twice, the order not that of the guess; the     *)
(* guess held MAP.                                                         *)
C15_Witness ==
    /\ Assembled
    /\ CodesOf(The(heap[1].course_list))
          = <<The(CourseCode(PHY2048)), The(CourseCode(MAC2313)), The(CourseCode(PHY2048))>>
    /\ heap[1].prefixes = <<PHY, MAC>>
    /\ MAP \in Range(NewDepartment.prefixes)

----------------------------------------------------------------------------
(* The grouping of two parallel lists.                                     *)

(* The m-th place, from the left, at which key stands in list_a.           *)
PlaceOf(list_a, key, m) ==
    CHOOSE i \in 1..Len(list_a) :
        list_a[i] = key /\ Cardinality({j \in 1..i : list_a[j] = key}) = m

(* C16: for two lists of the same length the dictionary has the elements   *)
(* of list_a as its keys, and gives for each key the elements of list_b at *)
(* the places where the key stands in list_a, in their order there; so     *)
(* every place of list_b shows up once, under the key at its place.        *)
C16_GroupKeepsOrder ==
    (last.op = "reader.parallel_lists_to_tuple_dict"
        /\ Len(The(last.main).list_a) = Len(The(last.main).list_b)) =>
        LET list_a == The(last.main).list_a
            list_b == The(last.main).list_b
            tuple_dict == The(ret)
        IN  /\ DOMAIN tuple_dict = Range(list_a)
            /\ \A key \in DOMAIN tuple_dict :
                  /\ Len(tuple_dict[key]) = Cardinality({i \in 1..Len(list_a) : list_a[i] = key})
                  /\ \A m \in 1..Len(tuple_dict[key]) :
                        tuple_dict[key][m] = list_b[PlaceOf(list_a, key, m)]

(* group(["a", "b", "a"], [1, 2, 3]) = {"a": (1, 3), "b": (2,)}            *)
C16_Witness ==
    /\ last.op = "reader.parallel_lists_to_tuple_dict"
    /\ The(last.main).list_a = <<"a", "b", "a">>
    /\ The(last.main).list_b = <<1, 2, 3>>
    /\ The(ret) = ("a" :> <<1, 3>>) @@ ("b" :> <<2>>)

----------------------------------------------------------------------------
(* The names of the Departments a load builds.                             *)

(* C17: the i-th Department of a load has the table name of the i-th pair  *)
(* as its name; its alternate names are the menu name of that pair alone   *)
(* when the two differ and none when they are the same, so that its name   *)
(* is never among its alternate names.                                     *)
C17_TableNameIsCanonical ==
    (Matched /\ last.ok) =>
        LET departments == The(reader.departments)
        IN  /\ Len(departments) = Len(log)
            /\ \A i \in 1..Len(departments) :
                  LET dep == heap[departments[i]]
                  IN  /\ log[i][1] = MenuNamesOf(last.main)[i]
                      /\ dep.name = log[i][2]
                      /\ dep.name \in TableNamesOf(last.main)
                      /\ log[i][1] # dep.name => dep.alternate_names = <<log[i][1]>>
                      /\ log[i][1] = dep.name => dep.alternate_names = <<>>
                      /\ dep.name \notin Range(dep.alternate_names)

(* One Department whose two names are the same, one whose names differ.    *)
C17_Witness ==
    /\ Matched /\ last.ok
    /\ \E i, j \in 1..Len(The(reader.departments)) :
          /\ heap[The(reader.departments)[i]].name = MATH
          /\ heap[The(reader.departments)[i]].alternate_names = <<>>
          /\ heap[The(reader.departments)[j]].name = Comp
          /\ heap[The(reader.departments)[j]].alternate_names = <<CS>>

----------------------------------------------------------------------------
(* The construction of a reader.                                           *)

(* C18: the constructor raises a KeyError for a year before 2001, and for  *)
(* a year before 2005 when the web listings are asked for, whatever the    *)
(* semester: no reader comes of it, no page is asked for, and the client's *)
(* reader and Departments are as before.  For any other year and a         *)
(* semester of the three it gives a reader that is not loaded.             *)
C18_BadYearFailsAtConstruction ==
    [][last'.op = "CourseReader" =>
          LET a == The(last'.main)
          IN  IF a.year < 2001 \/ (~a.full /\ a.year < 2005)
              THEN /\ ~last'.ok /\ last'.error = "KeyError"
                   /\ ret' = None
                   /\ last'.populated = 0
                   /\ reader' = reader /\ heap' = heap
              ELSE a.semester \in {SPRING, SUMMER, FALL} =>
                   /\ last'.ok /\ ret' = Some(reader')
                   /\ ~reader'.loaded /\ IsNone(reader'.departments)
                   /\ reader'.base_url.year = a.year]_vars

(* The web listings of 2004: a year the full listings have.                *)
C18_Witness ==
    /\ last.op = "CourseReader" /\ ~last.ok /\ last.error = "KeyError"
    /\ The(last.main).year = 2004 /\ ~The(last.main).full
    /\ ret = None /\ reader = NewReader

----------------------------------------------------------------------------
(* The lookups.                                                            *)

(* The Department k as it stood when the call began: as it was, or, when   *)
(* the call itself loaded the reader, as the reader built it.              *)
Before(r, h, call, score, k) ==
    IF k <= Len(h) THEN h[k]
    ELSE CourseReader_force_load(r, h, call.main, score).heap[k]

Only(seq, S) == SelectSeq(seq, LAMBDA k : k \in S)

PrefixesOf(course_list) == {course_list[j].course_code.prefix : j \in 1..Len(course_list)}

(* C19: with fast, get_prefixes and lookup_prefix load no department page  *)
(* and leave every Department as it was; they answer from the prefixes as  *)
(* they stand.  Without fast, every Department examined that was not       *)
(* loaded is loaded, one page each, before its prefixes are read; one that *)
(* was loaded is left as it was and costs no page; the answer is taken     *)
(* from the prefixes of the course lists.  lookup_prefix compares the      *)
(* upper-case form of the prefix.                                          *)
C19_FastReadsDoNotPopulate ==
    [][last'.op \in {"department.get_prefixes", "reader.lookup_prefix"} =>
          LET examined == last'.examined
              was(k) == Before(reader, heap, last', scoring_algorithm, k)
              holders == {k \in Range(examined) :
                             Upper(last'.arg) \in Range(heap'[k].prefixes)}
              answer == IF last'.op = "department.get_prefixes"
                        THEN heap'[last'.self].prefixes
                        ELSE Only(examined, holders)
          IN  /\ last'.ok => ret' = Some(answer)
              /\ (last'.ok /\ last'.op = "reader.lookup_prefix")
                    => examined = The(reader'.departments)
              /\ IF last'.fast
                 THEN /\ last'.dept_loads = 0
                      /\ \A k \in 1..Len(heap') : heap'[k] = was(k)
                 ELSE /\ \A k \in 1..Len(heap') :
                            (k \notin Range(examined) \/ was(k).loaded) => heap'[k] = was(k)
                      /\ \A i \in 1..Len(examined) :
                            (i < Len(examined) \/ last'.ok) =>
                                /\ heap'[examined[i]].loaded
                                /\ Range(heap'[examined[i]].prefixes)
                                      = PrefixesOf(The(heap'[examined[i]].course_list))
                      /\ last'.ok => last'.dept_loads
                                        = Cardinality({k \in Range(examined) : ~was(k).loaded})]_vars

(* An accurate lookup of "mac" that loads two Departments, the third       *)
(* having been loaded before, and finds that the first, for all the guess  *)
(* said, has no MAC course.                                                *)
C19_Witness ==
    /\ last.op = "reader.lookup_prefix" /\ ~last.fast /\ last.ok
    /\ last.arg = mac
    /\ last.dept_loads = 2
    /\ ret = Some(<<2, 3>>)
    /\ heap[1].prefixes = <<PHY>>

(* The m-th place, from the top, of this course code in the course list.   *)
PlaceOfCode(course_list, course_code, m) ==
    CHOOSE j \in 1..Len(course_list) :
        /\ course_list[j].course_code = course_code
        /\ Cardinality({i \in 1..j : course_list[i].course_code = course_code}) = m

----------------------------------------------------------------------------
(* The Departments of a reader that is loaded again.                       *)

(* The prefixes the prefix table gives for a department name, in the order *)
(* of its rows.                                                            *)
TablePrefixes(table, name) ==
    LET rows == SelectSeq(table, LAMBDA row : row[2] = name)
    IN  [j \in 1..Len(rows) |-> rows[j][1]]

(* C21: when force_load of the reader succeeds, every Department the       *)
(* reader then holds is an object made by that call: it is not loaded, has *)
(* no course list, and has as prefixes those the prefix table of the page  *)
(* just fetched gives for its name.  This is so also when the reader was   *)
(* loaded before and Departments it held were loaded: those objects stay   *)
(* as they were, and none of them is among the reader's Departments.       *)
C21_RefreshGivesNewDepartments ==
    [][(last'.op = "reader.force_load" /\ last'.ok) =>
          LET departments == The(reader'.departments)
              table == Tail(The(last'.main).rows)
          IN  /\ reader'.loaded
              /\ Len(heap') = Len(heap) + Len(departments)
              /\ \A k \in 1..Len(heap) : heap'[k] = heap[k]
              /\ \A i, j \in 1..Len(departments) : i # j => departments[i] # departments[j]
              /\ \A i \in 1..Len(departments) :
                    /\ departments[i] > Len(heap)
                    /\ ~heap'[departments[i]].loaded
                    /\ IsNone(heap'[departments[i]].course_list)
                    /\ heap'[departments[i]].prefixes
                          = TablePrefixes(table, heap'[departments[i]].name)]_vars

(* A reader loaded again: a Department of the load before is loaded and    *)
(* has its course list, the new one of the same name has none, and its     *)
(* prefixes are the guess again.                                           *)
C21_Witness ==
    /\ last.op = "reader.force_load" /\ last.was_loaded /\ last.ok
    /\ \E k \in 1..Len(heap), j \in Range(The(reader.departments)) :
          /\ k \notin Range(The(reader.departments))
          /\ heap[k].loaded /\ ~IsNone(heap[k].course_list)
          /\ heap[k].name = heap[j].name
          /\ heap[k].prefixes # heap[j].prefixes
          /\ ~heap[j].loaded /\ IsNone(heap[j].course_list)
=============================================================================
